---- MODULE Spec2Model ----
(***************************************************************************)
(* Model of esrgan/models/discriminator.py: the assembly of                *)
(* StridedConvEncoder and LinearHead from their configuration, and the     *)
(* construction and forward pass of VGGConv.                               *)
(*                                                                         *)
(* A constructed module is a value: the ordered list of (key, submodule)   *)
(* pairs that nn.Sequential holds.  A constructor that raises leaves no    *)
(* object behind; the model keeps the kind of the exception instead.       *)
(***************************************************************************)
EXTENDS Integers, Sequences, FiniteSets, TLC

VARIABLES
    encArgs,    \* arguments of the last StridedConvEncoder(...) call
    encObj,     \* the StridedConvEncoder object, or the exception raised
    headArgs,   \* arguments of the last LinearHead(...) call
    headObj,    \* the LinearHead object, or the exception raised
    vgg,        \* the VGGConv object: its attributes
    initLog,    \* one entry per call of utils.net_init_: attributes set then
    fwdCount,   \* number of VGGConv.forward calls made so far
    fwdLog      \* the last forward call: submodule calls in order, and result

vars == <<encArgs, encObj, headArgs, headObj, vgg, initLog, fwdCount, fwdLog>>

(***************************************************************************)
(* Bounds of the model.                                                    *)
(***************************************************************************)
MaxCh == 2          \* channel sizes enumerated: 0..MaxCh
MaxLen == 4         \* longest enumerated channel schedule
MaxOrderLen == 2    \* longest enumerated layer_order
MaxLatent == 2      \* longest enumerated latent_channels
MaxBatch == 2       \* batch sizes enumerated: 1..MaxBatch (and 4)
MaxForward == 2     \* forward calls per VGGConv object

(***************************************************************************)
(* Python values.                                                          *)
(***************************************************************************)
None == "None"
NoError == "NoError"

\* The factories bound by default (lines 38-41, 148-151) and ResidualModule.
Conv2d == "Conv2d"
BatchNorm2d == "BatchNorm2d"
LeakyReLU == "LeakyReLU"
Linear == "Linear"
BatchNorm1d == "BatchNorm1d"
Dropout == "Dropout"
ResidualModule == "ResidualModule"

NoModule == [factory |-> None, args |-> <<>>, kwargs |-> <<>>]

\* factory(*args, **kwargs): the layer object a factory returns.
Call(factory, args, kwargs) ==
    [factory |-> factory, args |-> args, kwargs |-> kwargs]

\* A variant of GetItem that clamps the index to the last element.
GetItemClamped(seq, i) ==
    IF seq = <<>> THEN [err |-> "IndexError", val |-> 0]
    ELSE [err |-> NoError, val |-> seq[IF i + 1 > Len(seq) THEN Len(seq) ELSE i + 1]]

\* seq[i] of a Python list (0-based): IndexError when i is out of range.
GetItem(seq, i) ==
    IF i + 1 > Len(seq) THEN [err |-> "IndexError", val |-> 0]
    ELSE [err |-> NoError, val |-> seq[i + 1]]

\* utils.pairwise: the adjacent pairs of a sequence.
Pairwise(s) == [i \in 1..(Len(s) - 1) |-> <<s[i], s[i + 1]>>]

\* collections.OrderedDict(items), as the list of its (key, value) pairs: a
\* key that occurs again keeps its first position and takes the later value.
RECURSIVE OrderedDict(_)
OrderedDict(items) ==
    IF items = <<>> THEN <<>>
    ELSE LET n == Len(items)
             front == OrderedDict(SubSeq(items, 1, n - 1))
             last == items[n]
             hit == {i \in 1..Len(front) : front[i][1] = last[1]}
         IN  IF hit = {} THEN Append(front, last)
             ELSE [i \in 1..Len(front) |-> IF i \in hit THEN last ELSE front[i]]

\* utils.create_layer: builds the layer of role layer_name from its factory.
CreateLayer(layer_name, layer, in_channels, out_channels, kwargs) ==
    IF layer = None
    THEN [err |-> "TypeError", module |-> NoModule]
    ELSE [err |-> NoError,
          module |-> Call(layer, <<in_channels, out_channels>>, kwargs)]

(***************************************************************************)
(* StridedConvEncoder.__init__                                             *)
(***************************************************************************)
DefaultLayers == <<3, 64, 128, 128, 256, 256, 512, 512>>
DefaultEncoderOrder == <<"conv", "norm", "activation">>

Name2FnEncoder(conv, norm, activation) ==
    [activation |-> activation, conv |-> conv, norm |-> norm]

\* A variant of Stride that never downsamples.
StrideAlwaysOne(in_ch, out_ch) ==
    IF in_ch = 0 THEN [err |-> "ZeroDivisionError", val |-> 0]
    ELSE [err |-> NoError, val |-> 1]

\* line 66: the stride passed to a conv layer of a non-stem block.
Stride(in_ch, out_ch) ==
    IF in_ch = 0 THEN [err |-> "ZeroDivisionError", val |-> 0]
    ELSE [err |-> NoError, val |-> out_ch \div in_ch]

\* lines 63-75: block_list after the first k names of layer_order.
RECURSIVE EncoderBlockList(_, _, _, _, _)
EncoderBlockList(layer_order, name2fn, in_ch, out_ch, k) ==
    IF k = 0 THEN [err |-> NoError, list |-> <<>>]
    ELSE
      LET prev == EncoderBlockList(layer_order, name2fn, in_ch, out_ch, k - 1)
          name == layer_order[k]
          stride == IF name = "conv" THEN Stride(in_ch, out_ch)
                    ELSE [err |-> NoError, val |-> 0]
          kwargs == IF name = "conv" THEN <<stride.val>> ELSE <<>>
      IN  IF prev.err # NoError THEN prev
          ELSE IF stride.err # NoError THEN [err |-> stride.err, list |-> <<>>]
          ELSE IF name \notin DOMAIN name2fn THEN [err |-> "KeyError", list |-> <<>>]
          ELSE
            LET made == CreateLayer(name, name2fn[name], in_ch, out_ch, kwargs)
            IN  IF made.err # NoError THEN [err |-> made.err, list |-> <<>>]
                ELSE [err |-> NoError,
                      list |-> Append(prev.list, <<name, made.module>>)]

\* A variant of Wraps that ignores the channel sizes.
WrapsWheneverResidual(residual, in_ch, out_ch) == residual # None

\* line 79: whether the block is handed to the residual factory.
Wraps(residual, in_ch, out_ch) == residual # None /\ in_ch = out_ch

\* lines 62-82: the (name, block) pairs appended for the first i pairs.
RECURSIVE EncoderBlocks(_, _, _, _, _)
EncoderBlocks(channels, layer_order, name2fn, residual, i) ==
    IF i = 0 THEN [err |-> NoError, net |-> <<>>]
    ELSE
      LET prev == EncoderBlocks(channels, layer_order, name2fn, residual, i - 1)
          in_ch == channels[i][1]
          out_ch == channels[i][2]
          bl == EncoderBlockList(layer_order, name2fn, in_ch, out_ch,
                                 Len(layer_order))
          block == [wrapper |-> IF Wraps(residual, in_ch, out_ch)
                                THEN residual ELSE None,
                    seq |-> OrderedDict(bl.list)]
      IN  IF prev.err # NoError THEN prev
          ELSE IF bl.err # NoError THEN [err |-> bl.err, net |-> <<>>]
          ELSE [err |-> NoError,
                net |-> Append(prev.net, <<<<"block", i>>, block>>)]

NoEncoder == [status |-> "none", err |-> NoError, _layers |-> <<>>, net |-> <<>>]

RaisedEncoder(e) == [status |-> "raised", err |-> e, _layers |-> <<>>, net |-> <<>>]

\* lines 43-84
EncoderInit(layers, layer_order, conv, norm, activation, residual) ==
    LET name2fn == Name2FnEncoder(conv, norm, activation)
        _layers == layers
        l0 == GetItem(_layers, 0)
        l1 == GetItem(_layers, 1)
    IN  IF l0.err # NoError THEN RaisedEncoder(l0.err)
        ELSE IF l1.err # NoError THEN RaisedEncoder(l1.err)
        ELSE
          LET first_conv == OrderedDict(<<
                  <<"conv_0", Call(name2fn["conv"], <<l0.val, l1.val>>, <<>>)>>,
                  <<"act", Call(name2fn["activation"], <<>>, <<>>)>> >>)
              stem == [wrapper |-> None, seq |-> first_conv]
              channels == Pairwise(Tail(_layers))
              rest == EncoderBlocks(channels, layer_order, name2fn, residual,
                                    Len(channels))
          IN  IF rest.err # NoError THEN RaisedEncoder(rest.err)
              ELSE [status |-> "built", err |-> NoError, _layers |-> _layers,
                    net |-> OrderedDict(<< <<<<"block", 0>>, stem>> >> \o rest.net)]

(***************************************************************************)
(* LinearHead.__init__                                                     *)
(***************************************************************************)
DefaultHeadOrder == <<"linear", "activation">>

Name2FnHead(linear, activation, norm, dropout) ==
    [activation |-> activation, dropout |-> dropout, linear |-> linear,
     norm |-> norm]

\* An Optional[Iterable[int]] argument: None, or the sequence given.
NoneArg == [none |-> TRUE, val |-> <<>>]
Given(s) == [none |-> FALSE, val |-> s]

\* A variant of LatentOrEmpty that loses the latent widths.
LatentDropped(latent_channels) == <<>>

\* line 162: latent_channels or []
LatentOrEmpty(latent_channels) ==
    IF latent_channels.none \/ latent_channels.val = <<>> THEN <<>>
    ELSE latent_channels.val

\* A variant of AllButLast that keeps the final pair.
WholeList(pairs) == pairs

\* line 167: channels_pairs[:-1]
AllButLast(pairs) == SubSeq(pairs, 1, Len(pairs) - 1)

\* lines 168-175: net after the first k names of layer_order for one pair.
RECURSIVE HeadBlock(_, _, _, _, _)
HeadBlock(net, layer_order, name2fn, pair, k) ==
    IF k = 0 THEN [err |-> NoError, net |-> net]
    ELSE
      LET prev == HeadBlock(net, layer_order, name2fn, pair, k - 1)
          name == layer_order[k]
      IN  IF prev.err # NoError THEN prev
          ELSE IF name \notin DOMAIN name2fn THEN [err |-> "KeyError", net |-> <<>>]
          ELSE
            LET made == CreateLayer(name, name2fn[name], pair[1], pair[2], <<>>)
            IN  IF made.err # NoError THEN [err |-> made.err, net |-> <<>>]
                ELSE [err |-> NoError, net |-> Append(prev.net, made.module)]

\* lines 166-175: net after the first i of the given pairs.
RECURSIVE HeadBlocks(_, _, _, _)
HeadBlocks(pairs, layer_order, name2fn, i) ==
    IF i = 0 THEN [err |-> NoError, net |-> <<>>]
    ELSE
      LET prev == HeadBlocks(pairs, layer_order, name2fn, i - 1)
      IN  IF prev.err # NoError THEN prev
          ELSE HeadBlock(prev.net, layer_order, name2fn, pairs[i],
                         Len(layer_order))

NoHead == [status |-> "none", err |-> NoError, net |-> <<>>]

RaisedHead(e) == [status |-> "raised", err |-> e, net |-> <<>>]

\* lines 153-178
HeadInit(in_channels, out_channels, latent_channels, layer_order, linear, activation, norm, dropout) ==
    LET name2fn == Name2FnHead(linear, activation, norm, dropout)
        latent == LatentOrEmpty(latent_channels)
        channels == <<in_channels>> \o latent \o <<out_channels>>
        channels_pairs == Pairwise(channels)
        body == AllButLast(channels_pairs)
        blocks == HeadBlocks(body, layer_order, name2fn, Len(body))
    IN  IF blocks.err # NoError THEN RaisedHead(blocks.err)
        ELSE [status |-> "built", err |-> NoError,
              net |-> Append(blocks.net,
                             Call(name2fn["linear"],
                                  channels_pairs[Len(channels_pairs)], <<>>))]

(***************************************************************************)
(* Forward passes of the submodules.  A tensor is its shape.               *)
(***************************************************************************)
RECURSIVE Product(_)
Product(seq) == IF seq = <<>> THEN 1 ELSE seq[1] * Product(Tail(seq))

RECURSIVE Flatten(_)
Flatten(seqs) == IF seqs = <<>> THEN <<>> ELSE seqs[1] \o Flatten(Tail(seqs))

\* The layers of an encoder in execution order, as (key, module) pairs.
EncoderLayers(net) == Flatten([i \in 1..Len(net) |-> net[i][2].seq])

\* The stride a conv layer runs with: the factory's own (1) unless passed.
StrideUsed(module) == IF module.kwargs = <<>> THEN 1 ELSE module.kwargs[1]

\* The product of the strides of the conv layers of an encoder.
TotalStride(net) ==
    LET ls == EncoderLayers(net)
    IN  Product([i \in 1..Len(ls) |->
                    IF ls[i][2].factory = Conv2d THEN StrideUsed(ls[i][2]) ELSE 1])

\* lines 96-98: StridedConvEncoder.forward on a (B, C, H, W) input.
EncoderForward(encoder, x) ==
    LET r == TotalStride(encoder.net)
    IN  IF Len(x) # 4 \/ x[2] # encoder._layers[1] \/ r < 1
        THEN [err |-> "ShapeMismatchError", val |-> <<>>]
        ELSE [err |-> NoError,
              val |-> <<x[1], encoder._layers[Len(encoder._layers)],
                        x[3] \div r, x[4] \div r>>]

\* An adaptive pooling layer: every channel reduced to size x size.
NoPool == [factory |-> None, size |-> 0]
AdaptivePool(size) == [factory |-> "AdaptiveAvgPool2d", size |-> size]

PoolForward(pool, x) == [err |-> NoError, val |-> <<x[1], x[2], pool.size, pool.size>>]

\* The input width of a head: that of its first linear layer.
HeadInChannels(net) ==
    LET first == CHOOSE i \in 1..Len(net) :
                    /\ net[i].factory = Linear
                    /\ \A j \in 1..(i - 1) : net[j].factory # Linear
    IN  net[first].args[1]

\* lines 190-192: LinearHead.forward on a (B, F) input.
HeadForward(h, x) ==
    IF Len(x) # 2 \/ x[2] # HeadInChannels(h.net)
    THEN [err |-> "ShapeMismatchError", val |-> <<>>]
    ELSE [err |-> NoError, val |-> <<x[1], h.net[Len(h.net)].args[2]>>]

(***************************************************************************)
(* VGGConv                                                                 *)
(***************************************************************************)
NoVGG ==
    [status |-> "none", attrs |-> {}, encoder |-> NoEncoder, pool |-> NoPool,
     head |-> NoHead]

\* A variant of VGGInit that calls utils.net_init_ before head is attached.
VGGInitBeforeHead(encoder, pool, head) ==
    LET s1 == [NoVGG EXCEPT !.encoder = encoder, !.attrs = @ \cup {"encoder"}]
        s2 == [s1 EXCEPT !.pool = pool, !.attrs = @ \cup {"pool"}]
        s3 == [s2 EXCEPT !.head = head, !.attrs = @ \cup {"head"}]
    IN  [self |-> [s3 EXCEPT !.status = "built"], inits |-> <<s2.attrs>>]

\* lines 209-215: the object built, and the attributes utils.net_init_ saw
\* at each of its calls.
VGGInit(encoder, pool, head) ==
    LET s1 == [NoVGG EXCEPT !.encoder = encoder, !.attrs = @ \cup {"encoder"}]
        s2 == [s1 EXCEPT !.pool = pool, !.attrs = @ \cup {"pool"}]
        s3 == [s2 EXCEPT !.head = head, !.attrs = @ \cup {"head"}]
    IN  [self |-> [s3 EXCEPT !.status = "built"], inits |-> <<s3.attrs>>]

\* A variant of View that collapses the batch dimension too.
ViewCollapsingAll(shape) == <<Product(shape)>>

\* line 228: x.view(x.shape[0], -1)
View(shape) == <<shape[1], Product(Tail(shape))>>

NoForward ==
    [calls |-> <<>>, x |-> <<>>, flat |-> <<>>, out |-> <<>>, err |-> NoError]

\* lines 227-231: the submodule calls made in order, the flattened shape,
\* and the result or the exception that ended the call.
VGGForward(self, x) ==
    LET e == EncoderForward(self.encoder, x)
        p == PoolForward(self.pool, e.val)
        v == View(p.val)
        h == HeadForward(self.head, v)
    IN  IF e.err # NoError
        THEN [NoForward EXCEPT !.calls = <<"encoder">>, !.x = x, !.err = e.err]
        ELSE IF p.err # NoError
        THEN [NoForward EXCEPT !.calls = <<"encoder", "pool">>, !.x = x,
                               !.err = p.err]
        ELSE [calls |-> <<"encoder", "pool", "view", "head">>, x |-> x,
              flat |-> v, out |-> h.val, err |-> h.err]

(***************************************************************************)
(* The calls a client makes, and the arguments they are made with.         *)
(***************************************************************************)
SeqsUpTo(S, n) == UNION {[1..k -> S] : k \in 0..n}

Channels == 0..MaxCh

\* The schedules the documentation of the encoder names, next to all short
\* schedules over Channels.
ExampleSchedules ==
    {DefaultLayers, <<3, 64>>, <<3, 64, 64>>, <<3, 64, 100>>, <<3, 64, 32>>}

Schedules == SeqsUpTo(Channels, MaxLen) \cup ExampleSchedules

\* "linear" is a role no factory of the encoder is registered for.
EncoderRoles == {"conv", "norm", "activation", "linear"}

EncoderOrders == SeqsUpTo(EncoderRoles, MaxOrderLen) \cup {DefaultEncoderOrder}

\* "conv" is a role no factory of the head is registered for.
HeadRoles == {"linear", "activation", "norm", "dropout", "conv"}

HeadOrders == SeqsUpTo(HeadRoles, MaxOrderLen) \cup {DefaultHeadOrder}

HeadWidths == (1..MaxCh) \cup {128}

LatentArgs == {NoneArg} \cup {Given(s) : s \in SeqsUpTo(HeadWidths, MaxLatent)}

NoEncArgs ==
    [layers |-> <<>>, layer_order |-> <<>>, norm |-> None, residual |-> None]

NoHeadArgs ==
    [in_channels |-> 0, out_channels |-> 0, latent_channels |-> NoneArg,
     layer_order |-> <<>>, norm |-> None, dropout |-> None]

\* StridedConvEncoder(layers, layer_order, norm=norm, residual=residual)
EncoderNew ==
    /\ encObj.status = "none"
    /\ \E layers \in Schedules, layer_order \in EncoderOrders,
          norm \in {BatchNorm2d, None}, residual \in {None, ResidualModule} :
          /\ encArgs' = [layers |-> layers, layer_order |-> layer_order,
                         norm |-> norm, residual |-> residual]
          /\ encObj' = EncoderInit(layers, layer_order, Conv2d, norm, LeakyReLU,
                                   residual)
    /\ UNCHANGED <<headArgs, headObj, vgg, initLog, fwdCount, fwdLog>>

\* LinearHead(in_channels, out_channels, latent_channels, layer_order, ...)
HeadNew ==
    /\ headObj.status = "none"
    /\ \E in_channels \in {1, 512}, out_channels \in {1, 2},
          latent_channels \in LatentArgs, layer_order \in HeadOrders,
          norm \in {BatchNorm1d, None}, dropout \in {Dropout, None} :
          /\ headArgs' = [in_channels |-> in_channels,
                          out_channels |-> out_channels,
                          latent_channels |-> latent_channels,
                          layer_order |-> layer_order, norm |-> norm,
                          dropout |-> dropout]
          /\ headObj' = HeadInit(in_channels, out_channels, latent_channels,
                                 layer_order, Linear, LeakyReLU, norm, dropout)
    /\ UNCHANGED <<encArgs, encObj, vgg, initLog, fwdCount, fwdLog>>

\* VGGConv(encoder, pool, head)
VGGNew ==
    /\ vgg.status = "none"
    /\ encObj.status = "built"
    /\ headObj.status = "built"
    /\ \E size \in {1, 2} :
          LET r == VGGInit(encObj, AdaptivePool(size), headObj)
          IN  /\ vgg' = r.self
              /\ initLog' = initLog \o
                     [i \in 1..Len(r.inits) |->
                         [attrs |-> r.inits[i], forwards |-> fwdCount]]
    /\ UNCHANGED <<encArgs, encObj, headArgs, headObj, fwdCount, fwdLog>>

Inputs ==
    {<<b, c, s, s>> : b \in (1..MaxBatch) \cup {4}, c \in {1, 3}, s \in {8, 16}}

\* vgg(x)
VGGForwardCall ==
    /\ vgg.status = "built"
    /\ fwdCount < MaxForward
    /\ \E x \in Inputs : fwdLog' = VGGForward(vgg, x)
    /\ fwdCount' = fwdCount + 1
    /\ UNCHANGED <<encArgs, encObj, headArgs, headObj, vgg, initLog>>

InitNone ==
    /\ encArgs = NoEncArgs
    /\ encObj = NoEncoder
    /\ headArgs = NoHeadArgs
    /\ headObj = NoHead
    /\ vgg = NoVGG
    /\ initLog = <<>>
    /\ fwdCount = 0
    /\ fwdLog = NoForward

\* A client that assembles encoders.
NextEncoder == EncoderNew

SpecEncoder == InitNone /\ [][NextEncoder]_vars

\* A client that assembles heads.
NextHead == HeadNew

SpecHead == InitNone /\ [][NextHead]_vars

\* A client that composes a classifier from an encoder and a head that are
\* already assembled, and evaluates it.
InitVGG ==
    /\ \E layers \in {DefaultLayers, <<3, 64, 64>>, <<3, 64>>} :
          /\ encArgs = [layers |-> layers, layer_order |-> DefaultEncoderOrder,
                        norm |-> BatchNorm2d, residual |-> None]
          /\ encObj = EncoderInit(layers, DefaultEncoderOrder, Conv2d,
                                  BatchNorm2d, LeakyReLU, None)
    /\ \E in_channels \in {64, 256, 512},
          latent_channels \in {NoneArg, Given(<<128>>)} :
          /\ headArgs = [in_channels |-> in_channels, out_channels |-> 1,
                         latent_channels |-> latent_channels,
                         layer_order |-> DefaultHeadOrder, norm |-> None,
                         dropout |-> None]
          /\ headObj = HeadInit(in_channels, 1, latent_channels,
                                DefaultHeadOrder, Linear, LeakyReLU, None, None)
    /\ vgg = NoVGG
    /\ initLog = <<>>
    /\ fwdCount = 0
    /\ fwdLog = NoForward

NextVGG == VGGNew \/ VGGForwardCall

SpecVGG == InitVGG /\ [][NextVGG]_vars

(***************************************************************************)
(* Properties.                                                             *)
(***************************************************************************)
Range(seq) == {seq[i] : i \in 1..Len(seq)}

Count(seq, v) == Cardinality({i \in 1..Len(seq) : seq[i] = v})

RECURSIVE Pow2(_)
Pow2(n) == IF n = 0 THEN 1 ELSE 2 * Pow2(n - 1)

\* The (in_ch, out_ch) pair of the non-stem block at position i of the net
\* (i >= 2), read from the arguments of the constructor call.
ArgPair(i) == <<encArgs.layers[i], encArgs.layers[i + 1]>>

NonStemPairs == {ArgPair(i) : i \in 2..(Len(encArgs.layers) - 1)}

EncoderCalled == encObj.status # "none"
EncoderBuilt == encObj.status = "built"
HeadBuilt == headObj.status = "built"

\* The conv layers of a block, as (key, module) pairs.
ConvsOf(block) == {block.seq[j] : j \in {k \in 1..Len(block.seq) : block.seq[k][1] = "conv"}}

\* C1: a schedule with a non-stem pair whose out_ch is no integer multiple
\* of in_ch, under a layer_order that includes "conv", makes the constructor
\* fail (stated here with any exception accepted as the failure).
C1_NonMultipleFailsAssembly ==
    (/\ EncoderCalled
     /\ "conv" \in Range(encArgs.layer_order)
     /\ \E p \in NonStemPairs : \A m \in 0..p[2] : m * p[1] # p[2])
    => encObj.status = "raised"

\* C2: a layer_order that contains a role with no registered factory makes
\* the constructor of the encoder and of the head fail, for every channel
\* configuration (stated here with any exception accepted as the failure).
C2_UnregisteredRoleFailsAssembly ==
    /\ (/\ EncoderCalled
        /\ \E name \in Range(encArgs.layer_order) :
              name \notin {"conv", "norm", "activation"})
       => encObj.status = "raised"
    /\ (/\ headObj.status # "none"
        /\ \E name \in Range(headArgs.layer_order) :
              name \notin {"linear", "activation", "norm", "dropout"})
       => headObj.status = "raised"

\* C3 as claimed: a schedule of fewer than 2 entries makes the constructor
\* fail with ConfigurationError, and no encoder object results.
C3_ShortScheduleConfigurationError ==
    (EncoderCalled /\ Len(encArgs.layers) < 2)
    => encObj = RaisedEncoder("ConfigurationError")

\* C3 as amended: a schedule of fewer than 2 entries makes the constructor
\* fail with IndexError, and no encoder object (no net) results.
C3_ShortScheduleIndexError ==
    (EncoderCalled /\ Len(encArgs.layers) < 2)
    => encObj = RaisedEncoder("IndexError")

C3_Witness ==
    /\ Len(encArgs.layers) = 1
    /\ encArgs.layer_order = DefaultEncoderOrder
    /\ encObj.status = "raised"

\* C4: in an assembled encoder a non-stem block is wrapped in the residual
\* adapter iff a residual factory was supplied and its in_ch equals its
\* out_ch; every conv of a wrapped block was built with stride 1; the stem
\* block is never wrapped.
C4_ResidualWrapping ==
    EncoderBuilt =>
      /\ Len(encObj.net) = Len(encArgs.layers) - 1
      /\ encObj.net[1][2].wrapper = None
      /\ \A i \in 2..Len(encObj.net) :
            LET block == encObj.net[i][2]
            IN  /\ (block.wrapper # None)
                      <=> (encArgs.residual # None /\ ArgPair(i)[1] = ArgPair(i)[2])
                /\ block.wrapper \in {None, encArgs.residual}
                /\ block.wrapper # None
                      => \A c \in ConvsOf(block) : c[2].kwargs = <<1>>

C4_Witness ==
    /\ EncoderBuilt
    /\ Len(encObj.net) >= 3
    /\ \E i, j \in 2..Len(encObj.net) :
          /\ encObj.net[i][2].wrapper = ResidualModule
          /\ ConvsOf(encObj.net[i][2]) # {}
          /\ encObj.net[j][2].wrapper = None

\* C5: with "conv" once in layer_order and every non-stem pair having out_ch
\* equal to in_ch or to 2*in_ch, the stem conv is built without a stride,
\* each doubling block's conv has stride 2 and each equal block's stride 1,
\* so the strides multiply to 2^(number of doubling blocks): 8 for the
\* default schedule.
C5_StrideInference ==
    (/\ EncoderBuilt
     /\ Count(encArgs.layer_order, "conv") = 1
     /\ \A p \in NonStemPairs : p[2] = p[1] \/ p[2] = 2 * p[1])
    => /\ \A c \in ConvsOf(encObj.net[1][2]) : c[2].kwargs = <<>>
       /\ \A i \in 2..Len(encObj.net) :
             /\ Cardinality(ConvsOf(encObj.net[i][2])) = 1
             /\ \A c \in ConvsOf(encObj.net[i][2]) :
                   c[2].kwargs = <<IF ArgPair(i)[2] = 2 * ArgPair(i)[1] THEN 2 ELSE 1>>
       /\ TotalStride(encObj.net) =
             Pow2(Cardinality({i \in 2..(Len(encArgs.layers) - 1) :
                                  ArgPair(i)[2] = 2 * ArgPair(i)[1]}))
       /\ encArgs.layers = DefaultLayers => TotalStride(encObj.net) = 8

C5_Witness ==
    /\ EncoderBuilt
    /\ encArgs.layers = DefaultLayers
    /\ encArgs.layer_order = DefaultEncoderOrder
    /\ TotalStride(encObj.net) = 8

\* C10: an assembled encoder has one block per adjacent pair of the
\* schedule, in schedule order, and every non-stem block holds exactly one
\* layer per entry of layer_order, in that order, also when layer_order
\* names a role more than once.
C10_OneLayerPerEntry ==
    EncoderBuilt =>
      /\ Len(encObj.net) = Len(encArgs.layers) - 1
      /\ \A i \in 1..Len(encObj.net) : encObj.net[i][1] = <<"block", i - 1>>
      /\ \A i \in 2..Len(encObj.net) :
            [j \in 1..Len(encObj.net[i][2].seq) |-> encObj.net[i][2].seq[j][1]]
               = encArgs.layer_order

\* The latent widths and the width the final linear layer reads, from the
\* arguments of the constructor call.
ArgLatent ==
    IF headArgs.latent_channels.none THEN <<>> ELSE headArgs.latent_channels.val

ArgLastWidth ==
    IF ArgLatent = <<>> THEN headArgs.in_channels ELSE ArgLatent[Len(ArgLatent)]

LinearLayers(net) == {i \in 1..Len(net) : net[i].factory = Linear}

Trailing == {LeakyReLU, BatchNorm1d, Dropout}

\* C8: for every assembled head the final channel pair contributes exactly
\* one layer, a bare linear layer from the last latent width (in_channels
\* if there is none) to out_channels, and it is the last layer of the net,
\* whatever layer_order lists.
C8_FinalBareLinear ==
    HeadBuilt =>
      LET net == headObj.net
      IN  /\ Len(net) = Len(ArgLatent) * Len(headArgs.layer_order) + 1
          /\ net[Len(net)] =
                Call(Linear, <<ArgLastWidth, headArgs.out_channels>>, <<>>)

C8_Witness ==
    /\ HeadBuilt
    /\ Len(ArgLatent) = 2
    /\ headArgs.layer_order = <<"linear", "dropout">>
    /\ Len(headObj.net) = 5

\* C9 as claimed: with "linear" once in layer_order a head with k latent
\* widths has k+1 linear layers, and the layer directly before the final
\* linear layer is no activation, norm or dropout layer.
C9_FinalLinearNotPreceded ==
    (HeadBuilt /\ Count(headArgs.layer_order, "linear") = 1)
    => LET net == headObj.net
       IN  /\ Cardinality(LinearLayers(net)) = Len(ArgLatent) + 1
           /\ Len(net) > 1 => net[Len(net) - 1].factory \notin Trailing

\* C9 as amended: with "linear" once in layer_order a head with k latent
\* widths has k+1 linear layers, the final one is followed by no layer, and
\* with no latent widths the net is that single linear layer.
C9_LinearLayerCount ==
    (HeadBuilt /\ Count(headArgs.layer_order, "linear") = 1)
    => LET net == headObj.net
       IN  /\ Cardinality(LinearLayers(net)) = Len(ArgLatent) + 1
           /\ Len(net) \in LinearLayers(net)
           /\ ArgLatent = <<>> => Len(net) = 1
           /\ (/\ ArgLatent = <<128>>
               /\ headArgs.in_channels = 512
               /\ headArgs.out_channels = 1)
              => Cardinality(LinearLayers(net)) = 2

C9_Witness ==
    /\ HeadBuilt
    /\ headArgs.in_channels = 512
    /\ headArgs.out_channels = 1
    /\ headArgs.latent_channels = Given(<<128>>)
    /\ headArgs.layer_order = DefaultHeadOrder
    /\ Cardinality(LinearLayers(headObj.net)) = 2
    /\ headObj.net[2].factory = LeakyReLU

\* C6: utils.net_init_ is called exactly once for a VGGConv object, when
\* encoder, pool and head are all attached and no forward call has been
\* made; forward calls never call it again.
C6_InitExactlyOnce ==
    /\ vgg.status = "none" => (initLog = <<>> /\ fwdCount = 0)
    /\ vgg.status = "built" =>
          initLog = <<[attrs |-> {"encoder", "pool", "head"}, forwards |-> 0]>>

C6_Witness ==
    /\ vgg.status = "built"
    /\ fwdCount >= 2
    /\ Len(initLog) = 1

\* C7: a forward call whose input and submodules fit calls encoder, pool,
\* the flatten and head once each in this order; the flatten keeps the
\* batch dimension and collapses the rest; the result has shape
\* (batch, out_channels of the head): (4, 1) for a batch of 4, an encoder
\* giving 512 channels, a pool to 1x1 and a head from 512 to 1.
C7_ForwardComposition ==
    (/\ fwdCount > 0
     /\ fwdLog.x[2] = encArgs.layers[1]
     /\ encArgs.layers[Len(encArgs.layers)] * vgg.pool.size * vgg.pool.size
           = headArgs.in_channels)
    => /\ fwdLog.err = NoError
       /\ fwdLog.calls = <<"encoder", "pool", "view", "head">>
       /\ fwdLog.flat = <<fwdLog.x[1], headArgs.in_channels>>
       /\ fwdLog.out = <<fwdLog.x[1], headArgs.out_channels>>
       /\ (/\ fwdLog.x[1] = 4
           /\ encArgs.layers[Len(encArgs.layers)] = 512
           /\ vgg.pool.size = 1)
          => fwdLog.out = <<4, 1>>

C7_Witness ==
    /\ fwdCount > 0
    /\ encArgs.layers = DefaultLayers
    /\ vgg.pool.size = 1
    /\ headArgs.in_channels = 512
    /\ fwdLog.x[1] = 4
    /\ fwdLog.calls = <<"encoder", "pool", "view", "head">>
    /\ fwdLog.out = <<4, 1>>

====
